---- MODULE Spec2Model ----
(***************************************************************************)
(* Model of skills-vet-new-safe/scripts/vet_new_skills.py: the bundle      *)
(* scanner, the change detection, the directory transitions and the        *)
(* weekly-sync / import / find / activate / deactivate commands.           *)
(*                                                                         *)
(* A bundle directory is a set of files; a file has a relative path, a     *)
(* byte content (abstracted to a text record) and a readable flag (a file  *)
(* whose open() raises, e.g. for lack of permission).  The three roots     *)
(* map a bundle identifier to a directory.  A command run is one action:   *)
(* its loops run over the bundles in list order, and an exception nobody   *)
(* catches ends the run on the spot (no report, no state file write).      *)
(***************************************************************************)
EXTENDS Integers, Sequences, FiniteSets, TLC

\* ---------------------------------------------------------------- bounds
MaxClock == 1   \* wall clock seconds are 0..MaxClock
MaxRuns == 1    \* command runs in one behaviour
MaxSeq == 3     \* steps of a sequence of runs on one bundle

Ids == {"a", "b"}
SortedIds == <<"a", "b">>
Clock == 0..MaxClock
Roots == {"active", "inactive", "quarantine"}

\* F applied to the value of x (x is evaluated once, as Python evaluates an
\* argument before the call).
Strict(x, F(_)) == CHOOSE y \in {F(v) : v \in {x}} : TRUE

\* ------------------------------------------------------ files and bundles
NoDir == [exists |-> FALSE, files |-> {}]
Dir(fs) == [exists |-> TRUE, files |-> fs]
File(p, t, r) == [path |-> p, text |-> t, readable |-> r]

\* A text: tag identifies the bytes; name/desc are the front matter keys
\* ("" when the key is missing); skill/status/reason are only set in a
\* synthesized placeholder body.
SrcText(tag, name, desc) ==
  [tag |-> tag, name |-> name, desc |-> desc, skill |-> "", status |-> "", reason |-> ""]

\* The marker _hash_dir feeds to the digest for a file it cannot read.
UNREADABLE == <<"<UNREADABLE>">>

TClean1 == SrcText("clean1", "Alpha", "does alpha")
TClean2 == SrcText("clean2", "Alpha", "does alpha v2")
TWarn == SrcText("warn1", "Alpha", "uses eval")
TDanger == SrcText("danger1", "", "wipes disk")
TNotes == SrcText("notes", "", "")
\* eval( on an early line, rm -rf / on a later one.
TMixed == SrcText("mixed", "Alpha", "evals then wipes")
\* Front matter values that themselves hold a match of a rule.
TWarnDesc == SrcText("warn2", "Alpha", "calls eval(x)")
TDangerName == SrcText("danger2", "rm -rf /", "wipes disk")
\* The bytes of TClean1, a zero byte, "notes.txt", a zero byte, the bytes of
\* TNotes.
TZeros == SrcText("zeros", "Alpha", "does alpha")
\* The twelve bytes <UNREADABLE>.
TMarker == SrcText("<UNREADABLE>", "", "")

\* read_bytes: the content as a sequence of byte strings; "\\0" is the zero
\* byte.
Bytes(text) ==
  CASE text.tag = "zeros" -> <<"clean1", "\\0", "notes.txt", "\\0", "notes">>
    [] text.tag = "placeholder" ->
         <<"placeholder", text.skill, text.name, text.desc, text.status, text.reason>>
    [] OTHER -> <<text.tag>>

\* The upstream versions a source bundle can have.
VClean1 == Dir({File("SKILL.md", TClean1, TRUE)})
VClean2 == Dir({File("SKILL.md", TClean2, TRUE)})
VWarn == Dir({File("SKILL.md", TWarn, TRUE)})
VDanger == Dir({File("SKILL.md", TDanger, TRUE)})
VError == Dir({File("SKILL.md", TClean1, TRUE), File("notes.txt", TNotes, FALSE)})
Versions == {VClean1, VClean2, VWarn, VDanger, VError}

\* RULES table, in table order: the rules the model's texts can match.
RULES == <<[rule_id |-> "RM_RF_ROOT", severity |-> "danger"],
           [rule_id |-> "EVAL_CALL", severity |-> "warning"]>>

\* The front matter values of the model's texts that hold a match of a rule.
Risky(rule_id, value) ==
  \/ rule_id = "EVAL_CALL" /\ value = "calls eval(x)"
  \/ rule_id = "RM_RF_ROOT" /\ value = "rm -rf /"

\* rule.pattern.search(content): the line of the first match, 0 for no
\* match.  The front matter (and the lines a placeholder body builds from it)
\* comes before the body.
Search(rule_id, text) ==
  IF Risky(rule_id, text.name) \/ Risky(rule_id, text.desc) THEN 1
  ELSE IF text.tag = "mixed" /\ rule_id = "EVAL_CALL" THEN 2
  ELSE IF text.tag = "mixed" /\ rule_id = "RM_RF_ROOT" THEN 3
  ELSE IF text.tag = "danger1" /\ rule_id = "RM_RF_ROOT" THEN 2
  ELSE IF text.tag = "warn1" /\ rule_id = "EVAL_CALL" THEN 2
  ELSE 0

\* The rule ids that match.
RuleHits(text) == {RULES[i].rule_id : i \in {j \in DOMAIN RULES : Search(RULES[j].rule_id, text) > 0}}

\* The loop over RULES of _scan_text (lines 160-181): one finding per rule
\* that matches, appended in table order.
RECURSIVE ScanRules(_, _)
ScanRules(text, i) ==
  IF i > Len(RULES) THEN <<>>
  ELSE (IF Search(RULES[i].rule_id, text) > 0
        THEN <<[rule_id |-> RULES[i].rule_id, severity |-> RULES[i].severity,
                line |-> Search(RULES[i].rule_id, text)]>>
        ELSE <<>>) \o ScanRules(text, i + 1)

\* De-dupe by rule_id, keeping the first (lines 218-227).
RECURSIVE Dedupe(_, _)
Dedupe(findings, seen) ==
  IF findings = <<>> THEN <<>>
  ELSE IF Head(findings).rule_id \in seen THEN Dedupe(Tail(findings), seen)
  ELSE <<Head(findings)>> \o Dedupe(Tail(findings), seen \cup {Head(findings).rule_id})

\* _scan_text; none of the model's texts holds zero-width characters or a
\* base64 run.
_scan_text(text) == Dedupe(ScanRules(text, 1), {})

\* _is_probably_binary: a zero byte in the first chunk; an unreadable file
\* makes open() raise, which returns False.
_is_probably_binary(f) ==
  f.readable /\ \E i \in DOMAIN Bytes(f.text) : Bytes(f.text)[i] = "\\0"

HasManifest(d) == d.exists /\ \E f \in d.files : f.path = "SKILL.md"

\* sorted(..., key=as_posix): the model's paths in byte order.
PathOrder == <<"SKILL.md", "notes.txt">>

RECURSIVE HashFrom(_, _)
HashFrom(d, i) ==
  IF i > Len(PathOrder) THEN <<>>
  ELSE LET fs == {f \in d.files : f.path = PathOrder[i]}
       IN (IF fs = {} THEN <<>>
           ELSE LET f == CHOOSE g \in fs : TRUE
                IN <<f.path, "\\0">> \o (IF f.readable THEN Bytes(f.text) ELSE UNREADABLE)
                   \o <<"\\0">>)
          \o HashFrom(d, i + 1)

NoHash == [some |-> FALSE, digest |-> <<>>]
_hash_dir(d) == [some |-> TRUE, digest |-> HashFrom(d, 1)]

\* Enumeration orders of rglob: every order of the directory's files.
RECURSIVE Orders(_)
Orders(fs) ==
  IF fs = {} THEN {<<>>}
  ELSE UNION {{<<f>> \o o : o \in Orders(fs \ {f})} : f \in fs}

\* scan_skill_dir, the loop body for one file.
ScanOne(out, f) ==
  IF _is_probably_binary(f) THEN out
  ELSE IF ~f.readable
  THEN [out EXCEPT !.status = "error",
                   !.files = Append(@, [file |-> f.path, status |-> "error",
                                        findings |-> <<>>])]
  ELSE LET findings == _scan_text(f.text)
           file_status == IF \E i \in DOMAIN findings : findings[i].severity = "danger"
                          THEN "danger" ELSE "warning"
       IN IF findings = <<>> THEN out
          ELSE [out EXCEPT
                  !.files = Append(@, [file |-> f.path, status |-> file_status,
                                       findings |-> findings]),
                  !.status = IF file_status = "danger" THEN "danger"
                             ELSE IF @ = "clean" THEN "warning" ELSE @]

RECURSIVE ScanLoop(_, _)
ScanLoop(out0, order) ==
  Strict(out0, LAMBDA out :
    IF order = <<>> THEN out ELSE ScanLoop(ScanOne(out, Head(order)), Tail(order)))

\* scan_skill_dir for one enumeration order of the files.
scan_skill_dir(d, order) ==
  Strict(ScanLoop([status |-> "clean", files |-> <<>>, skill_hash |-> _hash_dir(d)], order),
         LAMBDA out : out)

\* _list_skill_ids: the directories of a root that hold a SKILL.md.
_list_skill_ids(root) == {s \in Ids : HasManifest(root[s])}

RECURSIVE SortedFrom(_, _)
SortedFrom(S, i) ==
  IF i > Len(SortedIds) THEN <<>>
  ELSE (IF SortedIds[i] \in S THEN <<SortedIds[i]>> ELSE <<>>) \o SortedFrom(S, i + 1)
Sorted(S) == SortedFrom(S, 1)

\* --------------------------------------------------------- the state store
NoRec == [form |-> "none", hash |-> NoHash, status |-> "", disposition |-> ""]
NoState == [s \in Ids |-> NoRec]

\* _load_state: a missing file, and a file json.loads rejects, is the empty
\* state.
_load_state(file) == IF file.exists /\ file.parses THEN file.skills ELSE NoState

\* A faulty reader that knows the full record only.
_state_get_hash_full_only(state_skills, sid) ==
  IF state_skills[sid].form = "full" THEN state_skills[sid].hash ELSE NoHash

_state_get_hash(state_skills, sid) ==
  IF state_skills[sid].form \in {"legacy", "full"} THEN state_skills[sid].hash ELSE NoHash

_state_set_skill(m0, sid, skill_hash, status, disposition) ==
  Strict(m0, LAMBDA m :
    IF ~m.ok THEN m
    ELSE [m EXCEPT !.st[sid] = [form |-> "full", hash |-> skill_hash,
                                status |-> status, disposition |-> disposition]])

\* ------------------------------------------------- directory transitions
\* A machine state m: the roots, the backups, the created directories, the
\* in-memory state and ok, which is FALSE once an exception was raised (the
\* statements after it do not run).

\* shutil.copytree: an unreadable file is not copied and copytree raises
\* shutil.Error after copying the rest.
CopyTree(d) ==
  [dir |-> Dir({f \in d.files : f.readable}), ok |-> \A f \in d.files : f.readable]

\* A faulty check that lets copytree write into a backup that exists.
BackupTaken_never(m, sid, ts) == FALSE

\* The backup directory <name>_<YYYYmmdd_HHMMSS> of second ts already exists
\* (copytree with dirs_exist_ok=False then raises FileExistsError).
BackupTaken(m, sid, ts) == m.backups[sid][ts].exists

_backup_and_remove(m0, root, sid, ts) ==
  Strict(m0, LAMBDA m :
    IF ~m.ok \/ ~m.fs[root][sid].exists THEN m
    ELSE IF BackupTaken(m, sid, ts) THEN [m EXCEPT !.ok = FALSE, !.made = @ \cup {"backups"}]
    ELSE Strict(CopyTree(m.fs[root][sid]), LAMBDA c :
           IF c.ok THEN [m EXCEPT !.backups[sid][ts] = c.dir, !.fs[root][sid] = NoDir,
                                  !.made = @ \cup {"backups"}]
           ELSE [m EXCEPT !.backups[sid][ts] = c.dir, !.ok = FALSE,
                          !.made = @ \cup {"backups"}]))

_copy_skill_dir(m0, source_dir, root, sid, ts) ==
  Strict(m0, LAMBDA m :
    IF ~m.ok THEN m
    ELSE Strict(_backup_and_remove([m EXCEPT !.made = @ \cup {root}], root, sid, ts),
           LAMBDA m1 :
             IF ~m1.ok THEN m1
             ELSE Strict(CopyTree(source_dir), LAMBDA c :
                    [m1 EXCEPT !.fs[root][sid] = c.dir, !.ok = c.ok])))

_move_skill_dir(m0, from, to, sid, ts) ==
  Strict(m0, LAMBDA m :
    IF ~m.ok \/ ~m.fs[from][sid].exists THEN m
    ELSE Strict(_backup_and_remove([m EXCEPT !.made = @ \cup {to}], to, sid, ts),
           LAMBDA m1 :
             IF ~m1.ok THEN m1
             ELSE [m1 EXCEPT !.fs[to][sid] = m.fs[from][sid], !.fs[from][sid] = NoDir]))

\* The machine states the primitives pass through, file by file: what an
\* interruption can leave.  copytree fills its target with the readable
\* files of d one at a time, rmtree empties a directory one file at a time.
Filling(d) == {Dir(part) : part \in SUBSET {f \in d.files : f.readable}}
Emptying(d) == {Dir(part) : part \in SUBSET d.files} \cup {NoDir}

\* A faulty backup that removes the directory while it is being copied.
BackupAndRemoveSteps_eager(m, root, sid, ts) ==
  IF ~m.ok \/ ~m.fs[root][sid].exists THEN {m}
  ELSE {m, _backup_and_remove(m, root, sid, ts)}
       \cup {[m EXCEPT !.backups[sid][ts] = b, !.fs[root][sid] = d] :
               b \in Filling(m.fs[root][sid]), d \in Emptying(m.fs[root][sid])}

\* _backup_and_remove, lines 616-620: mkdir, copytree to the backup, rmtree.
BackupAndRemoveSteps(m, root, sid, ts) ==
  IF ~m.ok \/ ~m.fs[root][sid].exists THEN {m}
  ELSE IF BackupTaken(m, sid, ts) THEN {m, _backup_and_remove(m, root, sid, ts)}
  ELSE LET old == m.fs[root][sid]
           mk == [m EXCEPT !.made = @ \cup {"backups"}]
       IN {m, mk, _backup_and_remove(m, root, sid, ts)}
          \cup {[mk EXCEPT !.backups[sid][ts] = b] : b \in Filling(old)}
          \cup (IF CopyTree(old).ok
                THEN {[mk EXCEPT !.backups[sid][ts] = old, !.fs[root][sid] = d] :
                        d \in Emptying(old)}
                ELSE {})

\* _copy_skill_dir, lines 330-337.
CopySteps(m, source_dir, root, sid, ts) ==
  IF ~m.ok THEN {m}
  ELSE LET m0 == [m EXCEPT !.made = @ \cup {root}]
           m1 == _backup_and_remove(m0, root, sid, ts)
       IN {m, _copy_skill_dir(m, source_dir, root, sid, ts)}
          \cup BackupAndRemoveSteps(m0, root, sid, ts)
          \cup (IF m1.ok THEN {[m1 EXCEPT !.fs[root][sid] = d] : d \in Filling(source_dir)}
                ELSE {})

\* _move_skill_dir, lines 624-629: the rename itself is one step.
MoveSteps(m, from, to, sid, ts) ==
  IF ~m.ok \/ ~m.fs[from][sid].exists THEN {m}
  ELSE {m, _move_skill_dir(m, from, to, sid, ts)}
       \cup BackupAndRemoveSteps([m EXCEPT !.made = @ \cup {to}], to, sid, ts)

\* _parse_frontmatter of <dir>/SKILL.md: ok is FALSE when read_text raises.
_parse_frontmatter(d) ==
  LET fs == {f \in d.files : f.path = "SKILL.md"}
      f == CHOOSE g \in fs : TRUE
  IN IF fs = {} THEN [ok |-> TRUE, name |-> "", desc |-> ""]
     ELSE IF ~f.readable THEN [ok |-> FALSE, name |-> "", desc |-> ""]
     ELSE [ok |-> TRUE, name |-> f.text.name, desc |-> f.text.desc]

\* The body _write_placeholder_skill writes.
PlaceholderText(sid, fm, reason, source_status) ==
  [tag |-> "placeholder",
   name |-> IF fm.name = "" THEN sid ELSE fm.name,
   desc |-> IF fm.desc = "" THEN "Original skill" ELSE fm.desc,
   skill |-> sid, status |-> source_status, reason |-> reason]

IsPlaceholder(d) ==
  d.exists /\ d.files # {} /\ \A f \in d.files : f.text.tag = "placeholder"

_write_placeholder_skill(m0, sid, source_skill_dir, reason, source_status, ts) ==
  Strict(m0, LAMBDA m :
    IF ~m.ok THEN m
    ELSE Strict(_parse_frontmatter(source_skill_dir), LAMBDA fm :
      IF ~fm.ok THEN [m EXCEPT !.ok = FALSE]
      ELSE Strict(_backup_and_remove(m, "active", sid, ts), LAMBDA m1 :
        IF ~m1.ok THEN m1
        ELSE [m1 EXCEPT !.fs["active"][sid] =
                Dir({File("SKILL.md", PlaceholderText(sid, fm, reason, source_status), TRUE)}),
                        !.made = @ \cup {"active"}])))

\* _write_placeholder_skill, lines 645-684: backup, mkdir, write SKILL.md.
PlaceholderSteps(m, sid, source_skill_dir, reason, source_status, ts) ==
  IF ~m.ok \/ ~_parse_frontmatter(source_skill_dir).ok
  THEN {m, _write_placeholder_skill(m, sid, source_skill_dir, reason, source_status, ts)}
  ELSE LET m1 == _backup_and_remove(m, "active", sid, ts)
       IN {m, _write_placeholder_skill(m, sid, source_skill_dir, reason, source_status, ts)}
          \cup BackupAndRemoveSteps(m, "active", sid, ts)
          \cup (IF m1.ok THEN {[m1 EXCEPT !.fs["active"][sid] = Dir({}),
                                          !.made = @ \cup {"active"}]}
                ELSE {})

\* ------------------------------------------------------------ the state
VARIABLES
  source,       \* the upstream root: identifier -> directory
  fs,           \* the active, inactive and quarantine roots
  backups,      \* backup_root: identifier -> timestamp -> directory
  made,         \* the directories that mkdir has created
  stFile,       \* the persisted state file
  reportFile,   \* the last JSON report written
  verdictFile,  \* the last Markdown verdict written
  auditFiles,   \* the report and the verdict find has written
  clock,        \* the wall clock, in seconds
  last,         \* history: the last command run, its arguments and its log
  runs          \* command runs so far

vars == <<source, fs, backups, made, stFile, reportFile, verdictFile, auditFiles, clock,
          last, runs>>

BOOL == {TRUE, FALSE}

NoArgs ==
  [dry_run |-> FALSE, new_only |-> FALSE, no_placeholder_warnings |-> FALSE,
   placeholder_danger |-> FALSE, allow_warnings |-> FALSE, force_danger |-> FALSE,
   allowlist_given |-> FALSE, allowlist |-> {}, denylist |-> {},
   quarantine_given |-> FALSE, source_given |-> FALSE, mode |-> "", skill |-> <<>>,
   include_updates |-> FALSE]

NoSummary ==
  [total_candidates |-> 0, clean_activated |-> 0, warning_placeholder |-> 0,
   danger_quarantined |-> 0, error_quarantined |-> 0, policy_denied |-> 0,
   skipped_allowlist |-> 0]

NoDetails ==
  [new |-> <<>>, updated |-> <<>>, policy_denied |-> <<>>, skipped_allowlist |-> <<>>,
   actions |-> <<>>]

NoReport == [exists |-> FALSE, dry_run |-> FALSE, summary |-> NoSummary, details |-> NoDetails]
NoVerdict == [exists |-> FALSE, summary |-> NoSummary]

\* FULL_AUDIT_REPORT.json and SECURITY_VERDICT.md of find.
NoCounts == [clean |-> 0, warning |-> 0, danger |-> 0, error |-> 0]
NoAuditReport == [exists |-> FALSE, summary |-> NoCounts, skills |-> <<>>, skipped |-> <<>>]
NoAuditVerdict ==
  [exists |-> FALSE, total |-> 0, clean |-> 0, warning |-> 0, danger |-> 0, error |-> 0,
   verdict |-> ""]
NoAudit == [report |-> NoAuditReport, verdict |-> NoAuditVerdict]

\* trail: the runs so far, oldest first, and the upstream changes between
\* them.
Step(cmd, args, log, crashed) == [cmd |-> cmd, args |-> args, log |-> log, crashed |-> crashed]

\* history of a run: pre is what it started from, log has one entry per loop
\* iteration that was entered, report is the report it computed (written
\* only when the run did not crash) and twin the report a dry run of
\* weekly-sync computes from the same inputs.
NoPre == [source |-> <<>>, fs |-> <<>>, backups |-> <<>>, made |-> {}, stFile |-> <<>>]
\* prim: the arguments of a transition primitive applied on its own.
NoPrim == [from |-> "", root |-> "", sid |-> "", ts |-> 0, dir |-> NoDir]
\* out: what a function of the scanner applied on its own returned.
NoScan == [status |-> "", files |-> <<>>, skill_hash |-> NoHash]
NoOut == [first |-> NoScan, second |-> NoScan, findings |-> <<>>]
NoLast ==
  [cmd |-> "", args |-> NoArgs, pre |-> NoPre, log |-> <<>>, crashed |-> FALSE,
   exit |-> -1, report |-> NoReport, twin |-> NoReport, prim |-> NoPrim, out |-> NoOut,
   trail |-> <<>>]

Entry(sid, phase, status, result) ==
  [sid |-> sid, phase |-> phase, status |-> status, result |-> result]

\* The times at which the backups of the k-th loop iteration are named: the
\* run reads the clock twice per iteration at most.
Slots == 1..(2 * Cardinality(Ids))
Schedules ==
  {t \in [Slots -> Clock] :
     /\ t[1] >= clock
     /\ \A i \in Slots : i > 1 => t[i] >= t[i - 1]}
T1(sched, k) == sched[2 * k - 1]
T2(sched, k) == sched[2 * k]

\* The order in which rglob enumerates the files of each directory scanned.
EnumOrders(root) == {o \in [Ids -> UNION {Orders(root[s].files) : s \in Ids}] :
                       \A s \in Ids : o[s] \in Orders(root[s].files)}

\* The machine state a run starts from.
Machine(st) == [fs |-> fs, backups |-> backups, made |-> made, st |-> st, ok |-> TRUE]

\* --------------------------------------------------------- change detection
\* A faulty new set that only knows the bundles of the active root.
SyncNew_active_only(src, roots, state_skills) ==
  Sorted(_list_skill_ids(src) \ _list_skill_ids(roots["active"]))

\* A faulty new set that forgets the identifiers the state file knows.
SyncNew_roots_only(src, roots, state_skills) ==
  Sorted(_list_skill_ids(src) \ (_list_skill_ids(roots["active"])
            \cup _list_skill_ids(roots["inactive"])))

\* cmd_weekly_sync, lines 763-775.
SyncNew(src, roots, state_skills) ==
  Sorted(_list_skill_ids(src) \ (_list_skill_ids(roots["active"])
            \cup _list_skill_ids(roots["inactive"])
            \cup {s \in Ids : state_skills[s].form # "none"}))

\* A faulty change detection that takes every recorded bundle for updated.
SyncUpdated_hash_ignored(src, state_skills) ==
  Sorted({s \in _list_skill_ids(src) : _state_get_hash(state_skills, s).some})

SyncUpdated(src, state_skills) ==
  Sorted({s \in _list_skill_ids(src) :
            /\ _state_get_hash(state_skills, s).some
            /\ _state_get_hash(state_skills, s) # _hash_dir(src[s])})

\* A faulty policy filter that reports the denied ids but lets them through.
_filter_candidates_by_policy_deny_passes(skill_ids, allowlist, denylist) ==
  LET Denied(s) == s \in denylist
      Skipped(s) == s \notin denylist /\ allowlist # {} /\ s \notin allowlist
      Allowed(s) == ~Skipped(s)
  IN [allowed |-> SelectSeq(skill_ids, Allowed),
      denied |-> SelectSeq(skill_ids, Denied),
      skipped_not_allowlisted |-> SelectSeq(skill_ids, Skipped)]

\* _filter_candidates_by_policy
_filter_candidates_by_policy(skill_ids, allowlist, denylist) ==
  LET Denied(s) == s \in denylist
      Skipped(s) == s \notin denylist /\ allowlist # {} /\ s \notin allowlist
      Allowed(s) == ~Denied(s) /\ ~Skipped(s)
  IN [allowed |-> SelectSeq(skill_ids, Allowed),
      denied |-> SelectSeq(skill_ids, Denied),
      skipped_not_allowlisted |-> SelectSeq(skill_ids, Skipped)]

\* -------------------------------------------------------------- weekly-sync
Bump(summary, field) == [summary EXCEPT ![field] = @ + 1]

\* One iteration of the loop over the filtered candidates (lines 810-874),
\* for scan result res and the seconds t1 <= t2 at which backups are named.
SyncCandidate(m, src_dir, sid, res, args, summary, actions, t1, t2) ==
  LET status == res.status
      skill_hash == res.skill_hash
      Act(a) == Append(actions, [skill_id |-> sid, status |-> status, action |-> a])
  IN
  IF status = "clean" THEN
    IF args.dry_run
    THEN [m |-> m, summary |-> Bump(summary, "clean_activated"), actions |-> Act("would_activate")]
    ELSE LET m1 == _copy_skill_dir(m, src_dir, "active", sid, t1)
             m2 == _backup_and_remove(m1, "inactive", sid, t2)
         IN [m |-> _state_set_skill(m2, sid, skill_hash, status, "active"),
             summary |-> Bump(summary, "clean_activated"), actions |-> actions]
  ELSE IF status = "warning" THEN
    IF args.dry_run
    THEN [m |-> m, summary |-> Bump(summary, "warning_placeholder"),
          actions |-> Act("would_placeholder")]
    ELSE LET m1 == _copy_skill_dir(m, src_dir, "inactive", sid, t1)
             m2 == IF ~args.no_placeholder_warnings
                   THEN _write_placeholder_skill(m1, sid, src_dir,
                          "warning findings from weekly sync", status, t2)
                   ELSE IF args.allow_warnings
                   THEN _copy_skill_dir(m1, src_dir, "active", sid, t2)
                   ELSE m1
             disposition == IF ~args.no_placeholder_warnings THEN "inactive_placeholder"
                            ELSE IF args.allow_warnings THEN "active_warning"
                            ELSE "inactive_only"
         IN [m |-> _state_set_skill(m2, sid, skill_hash, status, disposition),
             summary |-> Bump(summary, "warning_placeholder"), actions |-> actions]
  ELSE
    LET counted == IF status = "danger" THEN Bump(summary, "danger_quarantined")
                   ELSE Bump(summary, "error_quarantined")
    IN
    IF args.dry_run
    THEN [m |-> m, summary |-> counted, actions |-> Act("would_quarantine")]
    ELSE LET m1 == _copy_skill_dir(m, src_dir, "quarantine", sid, t1)
             m2 == _backup_and_remove(m1, "active", sid, t2)
             ph == status = "danger" /\ args.placeholder_danger
             m3 == IF ph
                   THEN _write_placeholder_skill(m2, sid, src_dir,
                          "danger findings from weekly sync", status, t2)
                   ELSE m2
         IN [m |-> _state_set_skill(m3, sid, skill_hash, status,
                      IF ph THEN "quarantine_placeholder" ELSE "quarantine"),
             summary |-> counted, actions |-> actions]

\* The loop over denied_by_policy (lines 798-802); acc.k counts iterations.
RECURSIVE SyncDenyLoop(_, _, _, _, _)
SyncDenyLoop(acc0, src, denied, args, sched) ==
  Strict(acc0, LAMBDA acc :
    IF denied = <<>> \/ ~acc.m.ok THEN acc
    ELSE LET sid == Head(denied)
             src_dir == src[sid]
         IN Strict(IF src_dir.exists /\ ~args.dry_run
                   THEN _state_set_skill(
                          _copy_skill_dir(acc.m, src_dir, "quarantine", sid, T1(sched, acc.k)),
                          sid, _hash_dir(src_dir), "danger", "quarantine_policy")
                   ELSE acc.m,
              LAMBDA m1 :
                SyncDenyLoop(
                  [acc EXCEPT !.m = m1, !.k = @ + 1,
                              !.log = Append(@, Entry(sid, "deny", "",
                                                      IF m1.ok THEN "ok" ELSE "crashed"))],
                  src, Tail(denied), args, sched)))

\* The loop over filtered (lines 804-874).
RECURSIVE SyncScanLoop(_, _, _, _, _, _)
SyncScanLoop(acc0, src, todo, args, sched, ords) ==
  Strict(acc0, LAMBDA acc :
    IF todo = <<>> \/ ~acc.m.ok THEN acc
    ELSE LET sid == Head(todo)
             src_dir == src[sid]
         IN IF ~src_dir.exists
            THEN SyncScanLoop(
                   [acc EXCEPT
                      !.actions = Append(@, [skill_id |-> sid, status |-> "missing",
                                             action |-> "skip"]),
                      !.log = Append(@, Entry(sid, "scan", "missing", "ok"))],
                   src, Tail(todo), args, sched, ords)
            ELSE Strict(scan_skill_dir(src_dir, ords[sid]), LAMBDA res :
                 Strict(SyncCandidate(acc.m, src_dir, sid, res, args, acc.summary,
                                      acc.actions, T1(sched, acc.k), T2(sched, acc.k)),
                   LAMBDA r :
                     SyncScanLoop(
                       [acc EXCEPT
                          !.m = r.m, !.summary = r.summary, !.actions = r.actions,
                          !.k = @ + 1,
                          !.log = Append(@, Entry(sid, "scan", res.status,
                                                  IF r.m.ok THEN "ok" ELSE "crashed"))],
                       src, Tail(todo), args, sched, ords))))

\* cmd_weekly_sync as a function of what it reads: the machine state at the
\* end, the report and the log.
SyncRun(m0, src, file, args, sched, ords) ==
  LET state_skills == _load_state(file)
      new_ids == SyncNew(src, m0.fs, state_skills)
      updated_ids == SyncUpdated(src, state_skills)
      candidates == IF args.new_only THEN new_ids ELSE new_ids \o updated_ids
  IN Strict(_filter_candidates_by_policy(candidates, args.allowlist, args.denylist),
       LAMBDA f :
         LET summary == [NoSummary EXCEPT
                           !.total_candidates = Len(candidates),
                           !.policy_denied = Len(f.denied),
                           !.skipped_allowlist = Len(f.skipped_not_allowlisted)]
             details == [NoDetails EXCEPT
                           !.new = new_ids, !.updated = updated_ids,
                           !.policy_denied = f.denied,
                           !.skipped_allowlist = f.skipped_not_allowlisted]
             start == [m |-> [m0 EXCEPT
                                !.st = state_skills,
                                !.made = @ \cup {"active", "inactive", "quarantine", "audit"}],
                       summary |-> summary, actions |-> <<>>, log |-> <<>>, k |-> 1]
         IN Strict(SyncScanLoop(SyncDenyLoop(start, src, f.denied, args, sched),
                                src, f.allowed, args, sched, ords),
              LAMBDA a2 :
                [m |-> a2.m, log |-> a2.log,
                 report |-> [exists |-> TRUE, dry_run |-> args.dry_run,
                             summary |-> a2.summary,
                             details |-> [details EXCEPT !.actions = a2.actions]]]))

\* The flag profiles and the policy lists a weekly-sync run is given.
SyncFlags ==
  {[NoArgs EXCEPT !.dry_run = d, !.new_only = n, !.no_placeholder_warnings = w,
                  !.placeholder_danger = p, !.allow_warnings = a] :
     d \in BOOL, n \in BOOL, w \in BOOL, p \in BOOL, a \in BOOL}
Policies ==
  {[given |-> FALSE, allow |-> {}, deny |-> {}], [given |-> TRUE, allow |-> {}, deny |-> {}],
   [given |-> TRUE, allow |-> {"a"}, deny |-> {}], [given |-> TRUE, allow |-> {"b"}, deny |-> {}],
   [given |-> FALSE, allow |-> {}, deny |-> {"a"}], [given |-> TRUE, allow |-> {"a"}, deny |-> {"a"}]}
WithPolicy(args, p) ==
  [args EXCEPT !.allowlist_given = p.given, !.allowlist = p.allow, !.denylist = p.deny]
SyncArgs ==
  SyncFlags \cup {WithPolicy([NoArgs EXCEPT !.dry_run = d, !.placeholder_danger = pd], p) :
                    d \in BOOL, pd \in BOOL, p \in Policies}

\* A faulty copy that moves the bundle out of the source.
SourceAfter_moved(src, log) ==
  [s \in Ids |-> IF \E i \in DOMAIN log : log[i].sid = s /\ log[i].result \in {"ok", "imported"}
                 THEN NoDir ELSE src[s]]

\* The source root after a run: shutil.copytree and the scanner only read
\* source / sid.
SourceAfter(src, log) == src

\* What every command run does to the roots, the history and the counters.
Ran(cmd, args, r, exit, report, twin, sched) ==
  /\ runs' = runs + 1
  /\ clock' = sched[2 * Cardinality(Ids)]
  /\ fs' = r.m.fs
  /\ backups' = r.m.backups
  /\ made' = r.m.made
  /\ last' = [cmd |-> cmd, args |-> args,
              pre |-> [source |-> source, fs |-> fs, backups |-> backups, made |-> made,
                       stFile |-> stFile],
              log |-> r.log, crashed |-> ~r.m.ok,
              exit |-> IF r.m.ok THEN exit ELSE 1, report |-> report, twin |-> twin,
              prim |-> NoPrim, out |-> NoOut,
              trail |-> Append(last.trail, Step(cmd, args, r.log, ~r.m.ok))]
  /\ source' = SourceAfter(source, r.log)
  /\ UNCHANGED auditFiles

\* _save_state, unless the run is a dry run or ended in an exception.
Saved(r, args) ==
  IF r.m.ok /\ ~args.dry_run THEN [exists |-> TRUE, parses |-> TRUE, skills |-> r.m.st] ELSE stFile

SyncStep(argset) ==
  \E args \in argset, sched \in Schedules, ords \in EnumOrders(source) :
     \E r \in {SyncRun(Machine(NoState), source, stFile, args, sched, ords)} :
     \E twin \in {SyncRun(Machine(NoState), source, stFile,
                          [args EXCEPT !.dry_run = TRUE], sched, ords).report} :
          /\ Ran("weekly-sync", args, r, 0, r.report, twin, sched)
          /\ reportFile' = IF r.m.ok THEN r.report ELSE reportFile
          /\ verdictFile' = IF r.m.ok THEN [exists |-> TRUE, summary |-> r.report.summary]
                            ELSE verdictFile
          /\ stFile' = Saved(r, args)

WeeklySync ==
  /\ runs < MaxRuns
  /\ SyncStep(SyncArgs)

\* ------------------------------------------------------------------ import
\* _ensure_importable
_ensure_importable(status, allow_warnings) ==
  ~(status = "danger" \/ status = "error" \/ (status = "warning" /\ ~allow_warnings))

\* Updated bundles of cmd_find and cmd_import (lines 517-526).
ImportUpdated(src, dest, state_skills) ==
  Sorted({s \in _list_skill_ids(src) \cap _list_skill_ids(dest) :
            LET prev_hash == _state_get_hash(state_skills, s)
            IN IF prev_hash.some THEN prev_hash # _hash_dir(src[s])
               ELSE _hash_dir(dest[s]) # _hash_dir(src[s])})

\* A faulty requested list that lets the allow list override the deny list.
ImportRequested_allow_first(src, dest, state_skills, args) ==
  LET byMode == IF args.mode = "explicit" THEN args.skill
                ELSE IF args.mode = "safe_new"
                THEN Sorted(_list_skill_ids(src) \ _list_skill_ids(dest))
                ELSE ImportUpdated(src, dest, state_skills)
      Kept(s) == s \in args.allowlist \/ s \notin args.denylist
  IN SelectSeq(IF args.allowlist_given /\ args.mode = "explicit"
               THEN Sorted({byMode[i] : i \in 1..Len(byMode)} \cup args.allowlist)
               ELSE byMode, Kept)

\* The requested list of cmd_import (lines 528-546).
ImportRequested(src, dest, state_skills, args) ==
  LET new_ids == Sorted(_list_skill_ids(src) \ _list_skill_ids(dest))
      updated_ids == ImportUpdated(src, dest, state_skills)
      byMode == IF args.mode = "explicit" THEN args.skill
                ELSE IF args.mode = "safe_new" THEN new_ids
                ELSE updated_ids
      withAllow == IF args.allowlist_given /\ args.mode = "explicit"
                   THEN Sorted({byMode[i] : i \in 1..Len(byMode)} \cup args.allowlist)
                   ELSE byMode
      NotDenied(s) == s \notin args.denylist
      OnAllow(s) == s \in args.allowlist
      notDenied == SelectSeq(withAllow, NotDenied)
  IN IF args.allowlist_given /\ args.mode # "explicit"
     THEN SelectSeq(notDenied, OnAllow) ELSE notDenied

\* One iteration of the loop over requested (lines 557-579).
ImportOne(acc, src_dir, sid, res, args, t1) ==
  IF ~_ensure_importable(res.status, args.allow_warnings)
  THEN Strict(IF args.quarantine_given /\ ~acc.m.fs["quarantine"][sid].exists
              THEN Strict(CopyTree(src_dir), LAMBDA c :
                     [acc.m EXCEPT !.fs["quarantine"][sid] = c.dir, !.ok = c.ok,
                                   !.made = @ \cup {"quarantine"}])
              ELSE IF args.quarantine_given
              THEN [acc.m EXCEPT !.made = @ \cup {"quarantine"}]
              ELSE acc.m,
         LAMBDA m1 :
           [acc EXCEPT !.m = m1, !.blocked = @ + 1, !.k = @ + 1,
                       !.log = Append(@, Entry(sid, "import", res.status,
                                               IF m1.ok THEN "blocked" ELSE "crashed"))])
  ELSE IF args.dry_run
  THEN [acc EXCEPT !.k = @ + 1,
                   !.log = Append(@, Entry(sid, "import", res.status, "would_import"))]
  ELSE Strict(_state_set_skill(_copy_skill_dir(acc.m, src_dir, "active", sid, t1),
                               sid, res.skill_hash, res.status, "active"),
         LAMBDA m1 :
           [acc EXCEPT !.m = m1, !.k = @ + 1,
                       !.log = Append(@, Entry(sid, "import", res.status,
                                               IF m1.ok THEN "imported" ELSE "crashed"))])

\* The loop over requested (lines 556-579).
RECURSIVE ImportLoop(_, _, _, _, _, _)
ImportLoop(acc0, src, requested, args, sched, ords) ==
  Strict(acc0, LAMBDA acc :
    IF requested = <<>> \/ ~acc.m.ok THEN acc
    ELSE LET sid == Head(requested)
             src_dir == src[sid]
         IN IF ~src_dir.exists
            THEN ImportLoop(
                   [acc EXCEPT !.log = Append(@, Entry(sid, "import", "missing", "missing"))],
                   src, Tail(requested), args, sched, ords)
            ELSE Strict(scan_skill_dir(src_dir, ords[sid]), LAMBDA res :
                   ImportLoop(ImportOne(acc, src_dir, sid, res, args, T1(sched, acc.k)),
                              src, Tail(requested), args, sched, ords)))

\* cmd_import: saves is FALSE when it returns before the loop (line 548).
ImportRun(m0, src, file, args, sched, ords) ==
  LET state_skills == _load_state(file)
  IN Strict(ImportRequested(src, m0.fs["active"], state_skills, args), LAMBDA requested :
     Strict(ImportLoop([m |-> [m0 EXCEPT !.st = state_skills], log |-> <<>>, k |-> 1,
                        blocked |-> 0],
                       src, requested, args, sched, ords),
       LAMBDA a :
         [m |-> IF a.m.ok /\ ~args.dry_run /\ requested # <<>>
                THEN [a.m EXCEPT !.made = @ \cup {"audit"}] ELSE a.m,
          log |-> a.log, blocked |-> a.blocked, saves |-> requested # <<>>]))

ImportArgs ==
  {[NoArgs EXCEPT !.mode = "explicit", !.skill = sk, !.dry_run = d, !.allow_warnings = a,
                  !.quarantine_given = q] :
     sk \in {<<"a">>, <<"b", "a">>}, d \in BOOL, a \in BOOL, q \in BOOL}
  \cup {[NoArgs EXCEPT !.mode = md, !.dry_run = d, !.allow_warnings = a,
                       !.quarantine_given = q] :
          md \in {"safe_new", "safe_updated"}, d \in BOOL, a \in BOOL, q \in BOOL}
  \cup {WithPolicy([NoArgs EXCEPT !.mode = md, !.skill = IF md = "explicit" THEN <<"a">> ELSE <<>>],
                   p) :
          md \in {"explicit", "safe_new"}, p \in Policies}

Import ==
  /\ runs < MaxRuns
  /\ \E args \in ImportArgs, sched \in Schedules, ords \in EnumOrders(source) :
     \E r \in {ImportRun(Machine(NoState), source, stFile, args, sched, ords)} :
          /\ Ran("import", args, r, IF r.blocked = 0 THEN 0 ELSE 2, NoReport, NoReport, sched)
          /\ stFile' = IF r.saves THEN Saved(r, args) ELSE stFile
          /\ UNCHANGED <<reportFile, verdictFile>>

\* -------------------------------------------------------------------- find
\* build_report, the loop of lines 362-365; scanned[sid].status is "" for an
\* identifier with no scan result.
RECURSIVE BuildLoop(_, _, _)
BuildLoop(report0, ids, scanned) ==
  Strict(report0, LAMBDA report :
    IF ids = <<>> THEN report
    ELSE LET sid == Head(ids)
             status == IF scanned[sid].status = "" THEN "error" ELSE scanned[sid].status
         IN BuildLoop([report EXCEPT !.summary[status] = @ + 1,
                                     !.skills = Append(@, [skill_id |-> sid, status |-> status])],
                      Tail(ids), scanned))

build_report(new_ids, updated_ids, scanned, skipped) ==
  BuildLoop([exists |-> TRUE, summary |-> NoCounts, skills |-> <<>>, skipped |-> skipped],
            new_ids \o updated_ids, scanned)

\* A faulty verdict that looks at danger and warning only.
write_verdict_errors_pass(report) ==
  LET Is(v) == \E i \in DOMAIN report.skills : report.skills[i].status = v
  IN [NoAuditVerdict EXCEPT
        !.exists = TRUE, !.total = Len(report.skills),
        !.verdict = IF Is("danger") THEN "DO NOT USE"
                    ELSE IF Is("warning") THEN "REVIEW REQUIRED" ELSE "SAFE"]

\* write_verdict: the counts and the label of lines 372-382 and 399-404.
write_verdict(report) ==
  LET skills == report.skills
      IsDanger(x) == x.status = "danger"
      IsWarning(x) == x.status = "warning"
      IsError(x) == x.status = "error"
      IsClean(x) == x.status = "clean"
      danger == SelectSeq(skills, IsDanger)
      warning == SelectSeq(skills, IsWarning)
      error == SelectSeq(skills, IsError)
  IN [exists |-> TRUE, total |-> Len(skills), clean |-> Len(SelectSeq(skills, IsClean)),
      warning |-> Len(warning), danger |-> Len(danger), error |-> Len(error),
      verdict |-> IF danger # <<>> THEN "DO NOT USE"
                  ELSE IF warning # <<>> \/ error # <<>> THEN "REVIEW REQUIRED"
                  ELSE "SAFE"]

\* cmd_find as a function of what it reads: the two files it writes and the
\* log of the bundles it scanned.
FindRun(src, dest, file, args, ords) ==
  LET state_skills == _load_state(file)
      new_ids == Sorted(_list_skill_ids(src) \ _list_skill_ids(dest))
      updated_ids == ImportUpdated(src, dest, state_skills)
      to_scan == new_ids \o (IF args.include_updates THEN updated_ids ELSE <<>>)
      Missing(s) == ~src[s].exists
      Present(s) == src[s].exists
      found == SelectSeq(to_scan, Present)
      scanned == [s \in Ids |->
                    IF \E i \in DOMAIN found : found[i] = s
                    THEN scan_skill_dir(src[s], ords[s]) ELSE NoScan]
  IN Strict(build_report(new_ids, IF args.include_updates THEN updated_ids ELSE <<>>,
                         scanned, SelectSeq(to_scan, Missing)),
       LAMBDA report :
         [report |-> report, verdict |-> write_verdict(report),
          log |-> [i \in DOMAIN found |-> Entry(found[i], "scan", scanned[found[i]].status,
                                                "scanned")]])

FindArgs == {[NoArgs EXCEPT !.include_updates = u] : u \in BOOL}

Find ==
  /\ runs < MaxRuns
  /\ \E args \in FindArgs, ords \in EnumOrders(source) :
     \E r \in {FindRun(source, fs["active"], stFile, args, ords)} :
          /\ runs' = runs + 1
          /\ made' = made \cup {"active", "audit"}
          /\ auditFiles' = [report |-> r.report, verdict |-> r.verdict]
          /\ last' = [NoLast EXCEPT
                        !.cmd = "find", !.args = args, !.log = r.log, !.exit = 0,
                        !.pre = [source |-> source, fs |-> fs, backups |-> backups,
                                 made |-> made, stFile |-> stFile]]
          /\ source' = SourceAfter(source, r.log)
          /\ UNCHANGED <<fs, backups, stFile, reportFile, verdictFile, clock>>

\* ---------------------------------------------------- activate, deactivate
\* A faulty gate that trusts the status the state file recorded.
ActivateStatus_stored(state_skills, sid, res) == state_skills[sid].status

\* The status cmd_activate gates on: that of the fresh scan (lines 969-970).
ActivateStatus(state_skills, sid, res) == res.status

\* One iteration of the loop of cmd_activate (lines 969-999) for a bundle
\* that exists in the inactive root.
ActivateOne(acc, src, dir, sid, res, args, t1) ==
  LET status == ActivateStatus(acc.m.st, sid, res)
      Done(m, blocked, result) ==
        [acc EXCEPT !.m = m, !.blocked = @ + blocked, !.k = @ + 1,
                    !.log = Append(@, Entry(sid, "activate", status,
                                            IF m.ok THEN result ELSE "crashed"))]
  IN
  IF status = "danger" /\ ~args.force_danger
  THEN IF args.dry_run THEN Done(acc.m, 1, "blocked")
       ELSE Strict(_state_set_skill(_copy_skill_dir(acc.m, dir, "quarantine", sid, t1),
                                    sid, res.skill_hash, status, "quarantine"),
              LAMBDA m1 : Done(m1, 1, "blocked"))
  ELSE IF status = "warning" /\ ~args.allow_warnings
  THEN IF ~args.dry_run /\ args.source_given /\ src[sid].exists
       THEN Strict(_state_set_skill(
                     _write_placeholder_skill(acc.m, sid, src[sid],
                       "manual activation blocked due to warnings", status, t1),
                     sid, res.skill_hash, status, "inactive_placeholder"),
              LAMBDA m1 : Done(m1, 1, "blocked"))
       ELSE Done(acc.m, 1, "blocked")
  ELSE IF args.dry_run THEN Done(acc.m, 0, "would_activate")
  ELSE Strict(_state_set_skill(_move_skill_dir(acc.m, "inactive", "active", sid, t1),
                               sid, res.skill_hash, status, "active"),
         LAMBDA m1 : Done(m1, 0, "activated"))

\* The loop of cmd_activate (lines 963-999).
RECURSIVE ActivateLoop(_, _, _, _, _, _)
ActivateLoop(acc0, src, skill, args, sched, ords) ==
  Strict(acc0, LAMBDA acc :
    IF skill = <<>> \/ ~acc.m.ok THEN acc
    ELSE LET sid == Head(skill)
             dir == acc.m.fs["inactive"][sid]
         IN IF ~dir.exists
            THEN ActivateLoop(
                   [acc EXCEPT !.log = Append(@, Entry(sid, "activate", "", "not_inactive"))],
                   src, Tail(skill), args, sched, ords)
            ELSE Strict(scan_skill_dir(dir, ords[sid]), LAMBDA res :
                   ActivateLoop(ActivateOne(acc, src, dir, sid, res, args, T1(sched, acc.k)),
                                src, Tail(skill), args, sched, ords)))

ActivateRun(m0, src, file, args, sched, ords) ==
  Strict(ActivateLoop([m |-> [m0 EXCEPT !.st = _load_state(file)], log |-> <<>>, k |-> 1,
                       blocked |-> 0],
                      src, args.skill, args, sched, ords),
    LAMBDA a :
      [m |-> IF a.m.ok /\ ~args.dry_run THEN [a.m EXCEPT !.made = @ \cup {"audit"}] ELSE a.m,
       log |-> a.log, blocked |-> a.blocked])

ActivateArgs ==
  {[NoArgs EXCEPT !.skill = sk, !.dry_run = d, !.allow_warnings = a, !.force_danger = f,
                  !.source_given = sg] :
     sk \in {<<"a">>, <<"a", "a">>}, d \in BOOL, a \in BOOL, f \in BOOL, sg \in BOOL}

ActivateStep(argset) ==
  \E args \in argset, sched \in Schedules, ords \in EnumOrders(fs["inactive"]) :
     \E r \in {ActivateRun(Machine(NoState), source, stFile, args, sched, ords)} :
          /\ Ran("activate", args, r, IF r.blocked = 0 THEN 0 ELSE 2, NoReport, NoReport, sched)
          /\ stFile' = Saved(r, args)
          /\ UNCHANGED <<reportFile, verdictFile>>

Activate ==
  /\ runs < MaxRuns
  /\ ActivateStep(ActivateArgs)

\* The loop of cmd_deactivate (lines 931-943).
RECURSIVE DeactivateLoop(_, _, _, _)
DeactivateLoop(acc0, skill, args, sched) ==
  Strict(acc0, LAMBDA acc :
    IF skill = <<>> \/ ~acc.m.ok THEN acc
    ELSE LET sid == Head(skill)
         IN IF ~acc.m.fs["active"][sid].exists
            THEN DeactivateLoop(
                   [acc EXCEPT !.log = Append(@, Entry(sid, "deactivate", "", "not_active"))],
                   Tail(skill), args, sched)
            ELSE IF args.dry_run
            THEN DeactivateLoop(
                   [acc EXCEPT !.k = @ + 1,
                      !.log = Append(@, Entry(sid, "deactivate", "", "would_deactivate"))],
                   Tail(skill), args, sched)
            ELSE Strict(_move_skill_dir(acc.m, "active", "inactive", sid, T1(sched, acc.k)),
                   LAMBDA m1 :
                     DeactivateLoop(
                       [acc EXCEPT
                          !.m = _state_set_skill(m1, sid, _hash_dir(m1.fs["inactive"][sid]),
                                                 "manual", "inactive"),
                          !.k = @ + 1,
                          !.log = Append(@, Entry(sid, "deactivate", "",
                                     IF m1.ok THEN "deactivated" ELSE "crashed"))],
                       Tail(skill), args, sched)))

DeactivateRun(m0, file, args, sched) ==
  Strict(DeactivateLoop([m |-> [m0 EXCEPT !.st = _load_state(file)], log |-> <<>>, k |-> 1],
                        args.skill, args, sched),
    LAMBDA a :
      [m |-> IF a.m.ok /\ ~args.dry_run THEN [a.m EXCEPT !.made = @ \cup {"audit"}] ELSE a.m,
       log |-> a.log])

DeactivateArgs ==
  {[NoArgs EXCEPT !.skill = sk, !.dry_run = d] : sk \in {<<"a">>, <<"a", "b">>}, d \in BOOL}

DeactivateStep(argset) ==
  \E args \in argset, sched \in Schedules :
     \E r \in {DeactivateRun(Machine(NoState), stFile, args, sched)} :
          /\ Ran("deactivate", args, r, 0, NoReport, NoReport, sched)
          /\ stFile' = Saved(r, args)
          /\ UNCHANGED <<reportFile, verdictFile>>

Deactivate ==
  /\ runs < MaxRuns
  /\ DeactivateStep(DeactivateArgs)

\* ------------------------------------------------------------ initial states
\* A run starts from a layout earlier runs and the user's own file operations
\* have left.  Per bundle: what each root holds and the state record.
Rec(d, status, disposition) ==
  [form |-> "full", hash |-> _hash_dir(d), status |-> status, disposition |-> disposition]

\* A state entry in the legacy form: the bare hash string.
Legacy(d) == [form |-> "legacy", hash |-> _hash_dir(d), status |-> "", disposition |-> ""]

PlaceholderDir(sid, source_skill_dir, reason, source_status) ==
  Dir({File("SKILL.md",
            PlaceholderText(sid, _parse_frontmatter(source_skill_dir), reason, source_status),
            TRUE)})

\* old: the backup of the bundle an earlier run of the current second left.
Sit(a, i, q, rec) ==
  [active |-> a, inactive |-> i, quarantine |-> q, rec |-> rec, old |-> NoDir]

Situations(sid) ==
  IF sid = "a" THEN
    { Sit(NoDir, NoDir, NoDir, NoRec),                                \* never seen
      Sit(VClean1, NoDir, NoDir, Rec(VClean1, "clean", "active")),    \* synced clean
      Sit(PlaceholderDir(sid, VWarn, "warning findings from weekly sync", "warning"),
          VWarn, NoDir, Rec(VWarn, "warning", "inactive_placeholder")), \* synced warning
      Sit(NoDir, VWarn, NoDir, Rec(VWarn, "warning", "inactive_only")),
      Sit(VWarn, VWarn, NoDir, Rec(VWarn, "warning", "active_warning")),
      Sit(NoDir, NoDir, VDanger, Rec(VDanger, "danger", "quarantine")), \* synced danger
      Sit(PlaceholderDir(sid, VDanger, "danger findings from weekly sync", "danger"),
          NoDir, VDanger, Rec(VDanger, "danger", "quarantine_placeholder")),
      Sit(NoDir, NoDir, VClean1, Rec(VClean1, "danger", "quarantine_policy")), \* denied
      Sit(VClean1, NoDir, NoDir, NoRec),            \* library older than the state file
      Sit(NoDir, NoDir, NoDir, Rec(VClean1, "clean", "active")),      \* removed by hand
      Sit(NoDir, VClean1, NoDir, Rec(VClean1, "manual", "inactive")), \* deactivated
      \* denied once, then allowed again and synced clean after an upstream change
      Sit(VClean2, NoDir, VClean1, Rec(VClean2, "clean", "active")),
      Sit(VClean1, NoDir, NoDir, Legacy(VClean1)),  \* state file of the legacy form
      Sit(NoDir, NoDir, NoDir, Legacy(VClean1)),    \* the same, removed by hand
      \* synced warning, then activate --source run in the current second: it
      \* was blocked and has replaced the placeholder, backing up the old one
      [Sit(PlaceholderDir(sid, VWarn, "manual activation blocked due to warnings", "warning"),
           VWarn, NoDir, Rec(VWarn, "warning", "inactive_placeholder"))
         EXCEPT !.old = PlaceholderDir(sid, VWarn, "warning findings from weekly sync",
                                       "warning")] }
    \cup {Sit(NoDir, v, NoDir, NoRec) : v \in Versions}               \* staged by hand
  ELSE
    { Sit(NoDir, NoDir, NoDir, NoRec),
      Sit(VClean1, NoDir, NoDir, Rec(VClean1, "clean", "active")) }

\* Whether the state file parses: a file with records can have been damaged
\* (a truncated write, a hand edit) so that json.loads raises.
Damage(sa, sb) ==
  IF sa.rec.form # "none" /\ sb.rec.form = "none" THEN BOOL ELSE {TRUE}

SourceVersions(sid) == IF sid = "a" THEN Versions \cup {NoDir} ELSE {VClean1, NoDir}

Init ==
  /\ source \in {f \in [Ids -> Versions \cup {NoDir}] : \A s \in Ids : f[s] \in SourceVersions(s)}
  /\ \E sa \in Situations("a"), sb \in Situations("b") :
       LET sit == [s \in Ids |-> IF s = "a" THEN sa ELSE sb]
       IN /\ fs = [r \in Roots |-> [s \in Ids |-> sit[s][r]]]
          /\ \E p \in Damage(sa, sb) :
               stFile = [exists |-> \E s \in Ids : sit[s].rec.form # "none",
                         parses |-> p,
                         skills |-> [s \in Ids |-> sit[s].rec]]
          /\ made = {r \in Roots : \E s \in Ids : sit[s][r].exists}
                    \cup (IF \E s \in Ids : sit[s].rec.form # "none"
                          THEN {"active", "audit"} ELSE {})
                    \cup (IF \E s \in Ids : sit[s].old.exists THEN {"backups"} ELSE {})
          /\ backups = [s \in Ids |-> [t \in Clock |-> IF t = 0 THEN sit[s].old ELSE NoDir]]
  /\ reportFile = NoReport
  /\ verdictFile = NoVerdict
  /\ auditFiles = NoAudit
  /\ clock = 0
  /\ last = NoLast
  /\ runs = 0

Next ==
  \/ WeeklySync
  \/ Import
  \/ Find
  \/ Activate
  \/ Deactivate

Spec == Init /\ [][Next]_vars

\* ------------------------------------------- the primitives on their own
\* The transition primitives applied to bundle a of a layout, one call per
\* step, whatever command calls them.
Applied(cmd, prim, r) ==
  /\ runs' = runs + 1
  /\ clock' = prim.ts
  /\ fs' = r.fs
  /\ backups' = r.backups
  /\ made' = r.made
  /\ last' = [NoLast EXCEPT
                !.cmd = cmd, !.prim = prim, !.crashed = ~r.ok,
                !.pre = [source |-> source, fs |-> fs, backups |-> backups, made |-> made,
                         stFile |-> stFile]]
  /\ UNCHANGED <<source, stFile, reportFile, verdictFile, auditFiles>>

PrimCopy ==
  /\ runs < MaxRuns
  /\ \E root \in Roots, ts \in Clock, v \in Versions :
       /\ ts >= clock
       /\ \E r \in {_copy_skill_dir(Machine(NoState), v, root, "a", ts)} :
            Applied("_copy_skill_dir",
                    [NoPrim EXCEPT !.root = root, !.sid = "a", !.ts = ts, !.dir = v], r)

PrimMove ==
  /\ runs < MaxRuns
  /\ \E ft \in {<<"inactive", "active">>, <<"active", "inactive">>}, ts \in Clock :
       /\ ts >= clock
       /\ \E r \in {_move_skill_dir(Machine(NoState), ft[1], ft[2], "a", ts)} :
            Applied("_move_skill_dir",
                    [NoPrim EXCEPT !.from = ft[1], !.root = ft[2], !.sid = "a", !.ts = ts,
                                   !.dir = fs[ft[1]]["a"]], r)

\* The bundles a placeholder is written for: the upstream versions and two
\* bundles whose front matter values hold a match of a rule.
VWarnDesc == Dir({File("SKILL.md", TWarnDesc, TRUE)})
VDangerName == Dir({File("SKILL.md", TDangerName, TRUE)})
Withheld == Versions \cup {VWarnDesc, VDangerName}

PrimPlaceholder ==
  /\ runs < MaxRuns
  /\ \E ts \in Clock, v \in Withheld :
       /\ ts >= clock
       /\ \E r \in {_write_placeholder_skill(Machine(NoState), "a", v,
                         "warning findings from weekly sync", "warning", ts)} :
            Applied("_write_placeholder_skill",
                    [NoPrim EXCEPT !.root = "active", !.sid = "a", !.ts = ts, !.dir = v], r)

\* Layouts of bundle a, with or without a backup of second 0 left by an
\* earlier call.
PrimInit ==
  /\ source = [s \in Ids |-> NoDir]
  /\ \E sa \in Situations("a") :
       fs = [r \in Roots |-> [s \in Ids |-> IF s = "a" THEN sa[r] ELSE NoDir]]
  /\ \E old \in {NoDir, VClean1, VWarn} :
       backups = [s \in Ids |-> [t \in Clock |->
                    IF s = "a" /\ t = 0 THEN old ELSE NoDir]]
  /\ made = Roots \cup {"audit", "backups"}
  /\ stFile = [exists |-> FALSE, parses |-> TRUE, skills |-> NoState]
  /\ reportFile = NoReport
  /\ verdictFile = NoVerdict
  /\ auditFiles = NoAudit
  /\ clock = 0
  /\ last = NoLast
  /\ runs = 0

PrimNext ==
  \/ PrimCopy
  \/ PrimMove
  \/ PrimPlaceholder

PrimSpec == PrimInit /\ [][PrimNext]_vars

\* ------------------------------------------------------ sequences of runs
\* Real runs of weekly-sync, activate and deactivate on bundle a, one after
\* the other from an empty layout, with upstream changes of the bundle in
\* between.
SeqSyncArgs ==
  {[NoArgs EXCEPT !.no_placeholder_warnings = w, !.allow_warnings = a] : w \in BOOL, a \in BOOL}
  \cup {[NoArgs EXCEPT !.placeholder_danger = TRUE], [NoArgs EXCEPT !.denylist = {"a"}]}
SeqActivateArgs ==
  {[NoArgs EXCEPT !.skill = <<"a">>, !.allow_warnings = a, !.source_given = sg] :
     a \in BOOL, sg \in BOOL}
SeqDeactivateArgs == {[NoArgs EXCEPT !.skill = <<"a">>]}
\* The versions of the bundle upstream: a second warning version among them.
SeqVersions == Versions \cup {VWarnDesc}

SeqSync ==
  /\ Len(last.trail) < MaxSeq
  /\ SyncStep(SeqSyncArgs)

SeqActivate ==
  /\ Len(last.trail) < MaxSeq
  /\ ActivateStep(SeqActivateArgs)

SeqDeactivate ==
  /\ Len(last.trail) < MaxSeq
  /\ DeactivateStep(SeqDeactivateArgs)

\* The maintainers publish another version of bundle a.
Upstream ==
  /\ Len(last.trail) < MaxSeq
  /\ last.trail # <<>>
  /\ last.trail[Len(last.trail)].cmd # "upstream"
  /\ \E v \in SeqVersions \ {source["a"]} : source' = [source EXCEPT !["a"] = v]
  /\ last' = [last EXCEPT !.trail = Append(@, Step("upstream", NoArgs, <<>>, FALSE))]
  /\ UNCHANGED <<fs, backups, made, stFile, reportFile, verdictFile, auditFiles, clock, runs>>

SeqInit ==
  /\ \E v \in SeqVersions : source = [s \in Ids |-> IF s = "a" THEN v ELSE NoDir]
  /\ fs = [r \in Roots |-> [s \in Ids |-> NoDir]]
  /\ backups = [s \in Ids |-> [t \in Clock |-> NoDir]]
  /\ made = {}
  /\ stFile = [exists |-> FALSE, parses |-> TRUE, skills |-> NoState]
  /\ reportFile = NoReport
  /\ verdictFile = NoVerdict
  /\ auditFiles = NoAudit
  /\ clock = 0
  /\ last = NoLast
  /\ runs = 0

SeqNext ==
  \/ SeqSync
  \/ SeqActivate
  \/ SeqDeactivate
  \/ Upstream

SeqSpec == SeqInit /\ [][SeqNext]_vars

\* ---------------------------------------------- the scanner applied alone
\* The bundles the scanner and the hash are applied to: a SKILL.md and at
\* most one more file, readable or not.
ScanTexts == {TClean1, TWarn, TDanger, TMixed, TZeros}
ScanBundles ==
  {Dir({File("SKILL.md", t, TRUE)} \cup more) :
     t \in ScanTexts,
     more \in {{}, {File("notes.txt", TNotes, TRUE)}, {File("notes.txt", TNotes, FALSE)},
               {File("notes.txt", TMarker, TRUE)}, {File("notes.txt", TDanger, TRUE)},
               {File("notes.txt", TWarn, TRUE)}}}

Returned(cmd, prim, out) ==
  /\ runs' = runs + 1
  /\ last' = [NoLast EXCEPT !.cmd = cmd, !.prim = prim, !.out = out]
  /\ UNCHANGED <<source, fs, backups, made, stFile, reportFile, verdictFile, auditFiles,
                 clock>>

\* scan_skill_dir on one bundle, twice: rglob may enumerate the files in a
\* different order each time.
ApplyScan ==
  /\ runs < MaxRuns
  /\ \E sid \in Ids :
     \E o1 \in Orders(source[sid].files), o2 \in Orders(source[sid].files) :
       Returned("scan_skill_dir", [NoPrim EXCEPT !.sid = sid, !.dir = source[sid]],
                [NoOut EXCEPT !.first = scan_skill_dir(source[sid], o1),
                              !.second = scan_skill_dir(source[sid], o2)])

\* _hash_dir on the two bundles.
ApplyHash ==
  /\ runs < MaxRuns
  /\ Returned("_hash_dir", NoPrim,
              [NoOut EXCEPT !.first.skill_hash = _hash_dir(source["a"]),
                            !.second.skill_hash = _hash_dir(source["b"])])

\* _scan_text on the text of one readable file.
ApplyScanText ==
  /\ runs < MaxRuns
  /\ \E sid \in Ids : \E f \in {g \in source[sid].files : g.readable} :
       Returned("_scan_text", [NoPrim EXCEPT !.sid = sid, !.dir = Dir({f})],
                [NoOut EXCEPT !.findings = _scan_text(f.text)])

ScanInit ==
  /\ source \in [Ids -> ScanBundles]
  /\ fs = [r \in Roots |-> [s \in Ids |-> NoDir]]
  /\ backups = [s \in Ids |-> [t \in Clock |-> NoDir]]
  /\ made = {}
  /\ stFile = [exists |-> FALSE, parses |-> TRUE, skills |-> NoState]
  /\ reportFile = NoReport
  /\ verdictFile = NoVerdict
  /\ auditFiles = NoAudit
  /\ clock = 0
  /\ last = NoLast
  /\ runs = 0

ScanNext ==
  \/ ApplyScan
  \/ ApplyHash
  \/ ApplyScanText

ScanSpec == ScanInit /\ [][ScanNext]_vars

\* ------------------------------------------------------------- properties
\* The properties are state predicates over the state a run leaves and the
\* history of that run (last).
LogEntries == {last.log[i] : i \in DOMAIN last.log}
RealRun(cmd) == last.cmd = cmd /\ ~last.args.dry_run
Disjoint(roots) == \A s \in Ids : Cardinality({r \in Roots : roots[r][s].exists}) <= 1
FreshStatuses(d) == {scan_skill_dir(d, o).status : o \in Orders(d.files)}
Blocks(status, args) ==
  \/ status = "danger" /\ ~args.force_danger
  \/ status = "warning" /\ ~args.allow_warnings

\* C1: after a real weekly-sync has processed a candidate whose fresh verdict
\* is danger or error, quarantine holds a copy of the source bundle, active
\* holds at most a placeholder (only for danger with placeholder-danger) and
\* the recorded disposition is quarantine_placeholder or quarantine.
C1_DangerAndErrorQuarantined ==
  \A e \in LogEntries :
    (RealRun("weekly-sync") /\ e.phase = "scan" /\ e.status \in {"danger", "error"}) =>
      LET ph == e.status = "danger" /\ last.args.placeholder_danger
      IN /\ fs["quarantine"][e.sid] = source[e.sid]
         /\ fs["active"][e.sid].exists => (ph /\ IsPlaceholder(fs["active"][e.sid]))
         /\ stFile.skills[e.sid].disposition =
              IF ph THEN "quarantine_placeholder" ELSE "quarantine"

\* C2: a real weekly-sync, activate or deactivate run that starts from a
\* layout in which no identifier is in two roots leaves no identifier in two
\* of the active, inactive and quarantine roots.
C2_OneRootPerBundle ==
  (last.cmd \in {"weekly-sync", "activate", "deactivate"} /\ ~last.args.dry_run
     /\ Disjoint(last.pre.fs))
    => Disjoint(fs)

C4_ActivateGatesOnFreshVerdict ==
  last.cmd = "activate" =>
    /\ \A e \in LogEntries :
         e.status # "" => e.status \in FreshStatuses(last.pre.fs["inactive"][e.sid])
    /\ \A i \in DOMAIN last.args.skill :
         LET s == last.args.skill[i]
             was == last.pre.fs["inactive"][s]
         IN (was.exists /\ \A st \in FreshStatuses(was) : Blocks(st, last.args))
              => /\ fs["inactive"][s] = was
                 /\ \/ fs["active"][s] = last.pre.fs["active"][s]
                    \/ IsPlaceholder(fs["active"][s])

\* C4 happens: a real activate blocked a bundle whose fresh verdict is danger
\* although the state file did not record danger for it.
C4_Witness ==
  /\ RealRun("activate")
  /\ \E e \in LogEntries : e.sid = "a" /\ e.status = "danger" /\ e.result = "blocked"
  /\ last.pre.stFile.skills["a"].status # "danger"
  /\ fs["inactive"]["a"].exists
  /\ ~fs["active"]["a"].exists

\* C5: whenever a real activate blocks a bundle because its fresh verdict is
\* warning and warnings are not allowed, active holds a placeholder for it
\* and the disposition inactive_placeholder is recorded.
C5_BlockedWarningGetsPlaceholder ==
  \A e \in LogEntries :
    (RealRun("activate") /\ e.status = "warning" /\ ~last.args.allow_warnings)
      => /\ IsPlaceholder(fs["active"][e.sid])
         /\ stFile.skills[e.sid].disposition = "inactive_placeholder"

\* C6: weekly-sync, dry run or not, never passes a deny-listed identifier to
\* the scanner, whatever the bundle holds and whether or not it is also on
\* the allow list.
C6_DeniedNeverScanned ==
  last.cmd = "weekly-sync" =>
    \A e \in LogEntries : e.phase = "scan" => e.sid \notin last.args.denylist

\* C6 happens: a weekly-sync met a candidate with danger content that is on
\* the deny list and on the allow list.
C6_Witness ==
  /\ last.cmd = "weekly-sync"
  /\ "a" \in last.args.denylist \cap last.args.allowlist
  /\ source["a"] = VDanger
  /\ \E e \in LogEntries : e.sid = "a" /\ e.phase = "deny"

\* C7: after a real weekly-sync every deny-listed bundle present in the
\* source has a copy in quarantine and a record with disposition
\* quarantine_policy.
C7_DeniedAreQuarantined ==
  RealRun("weekly-sync") =>
    \A s \in last.args.denylist :
      HasManifest(source[s]) =>
        /\ fs["quarantine"][s] = source[s]
        /\ stFile.skills[s].disposition = "quarantine_policy"

\* C8: when bundle X is in active, its record holds hash H and the source
\* copy hashes to H, weekly-sync leaves X out of the updated set and leaves
\* X's disposition and X's content in active as they were.
C8_UnchangedBundleUntouched ==
  last.cmd = "weekly-sync" =>
    \A s \in Ids :
      (/\ last.pre.fs["active"][s].exists
       /\ source[s].exists
       /\ _state_get_hash(_load_state(last.pre.stFile), s) = _hash_dir(source[s]))
        => /\ \A i \in DOMAIN last.report.details.updated :
                last.report.details.updated[i] # s
           /\ stFile.skills[s].disposition = last.pre.stFile.skills[s].disposition
           /\ fs["active"][s] = last.pre.fs["active"][s]

\* C8 happens: a real weekly-sync processed bundle b while bundle a was
\* active with the recorded hash equal to that of its source copy.
C8_Witness ==
  /\ RealRun("weekly-sync")
  /\ last.pre.fs["active"]["a"].exists
  /\ source["a"].exists
  /\ _state_get_hash(_load_state(last.pre.stFile), "a") = _hash_dir(source["a"])
  /\ \E e \in LogEntries : e.sid = "b" /\ e.phase = "scan" /\ e.result = "ok"
  /\ ~last.crashed

\* C9: a dry run of any command creates no directory, copies, moves, backs
\* up or quarantines no bundle and does not write the state file.
C9_DryRunChangesNothing ==
  (last.cmd # "" /\ last.args.dry_run) =>
    /\ fs = last.pre.fs
    /\ backups = last.pre.backups
    /\ made = last.pre.made
    /\ stFile = last.pre.stFile

\* C10: the report and the verdict a real weekly-sync writes have the
\* content (summary counts, details, per-bundle actions) of those a dry run
\* writes for the same source, roots, state, policy lists and flags.
C10_DryRunReportEqualsRealReport ==
  (RealRun("weekly-sync") /\ ~last.crashed) =>
    /\ reportFile.summary = last.twin.summary
    /\ reportFile.details = last.twin.details
    /\ verdictFile.summary = last.twin.summary

\* C11: after a real weekly-sync has processed a candidate whose fresh
\* verdict is clean, active holds exactly the source content (the previous
\* active copy is in a backup), inactive holds no copy and the recorded
\* disposition is active.
C11_CleanIsActivated ==
  \A e \in LogEntries :
    (RealRun("weekly-sync") /\ e.phase = "scan" /\ e.status = "clean") =>
      /\ fs["active"][e.sid] = source[e.sid]
      /\ ~fs["inactive"][e.sid].exists
      /\ stFile.skills[e.sid].disposition = "active"
      /\ last.pre.fs["active"][e.sid].exists =>
           \E t \in Clock : backups[e.sid][t] = last.pre.fs["active"][e.sid]

\* C12: after a real weekly-sync has processed a candidate whose fresh
\* verdict is warning: with placeholders enabled the original is in inactive
\* and a placeholder in active (inactive_placeholder); with placeholders
\* disabled and warnings allowed the original is copied into active and not
\* into inactive (active_warning); with neither the bundle is in inactive
\* only and active holds no copy of it.
C12_WarningDispositions ==
  \A e \in LogEntries :
    (RealRun("weekly-sync") /\ e.phase = "scan" /\ e.status = "warning") =>
      LET a == fs["active"][e.sid]
          i == fs["inactive"][e.sid]
          d == stFile.skills[e.sid].disposition
      IN IF ~last.args.no_placeholder_warnings
         THEN i = source[e.sid] /\ IsPlaceholder(a) /\ d = "inactive_placeholder"
         ELSE IF last.args.allow_warnings
         THEN /\ a = source[e.sid]
              /\ i = last.pre.fs["inactive"][e.sid]
              /\ d = "active_warning"
         ELSE i = source[e.sid] /\ ~a.exists

\* C13: in weekly-sync an identifier that has a state record is never in the
\* new set, also when it is in neither the active nor the inactive root; a
\* recorded bundle whose source hash equals the recorded hash is not
\* processed and no root changes for it.
C13_RecordedIsNotNew ==
  last.cmd = "weekly-sync" =>
    \A s \in Ids :
      _load_state(last.pre.stFile)[s].form # "none" =>
        /\ \A k \in DOMAIN last.report.details.new : last.report.details.new[k] # s
        /\ (/\ source[s].exists
            /\ _state_get_hash(_load_state(last.pre.stFile), s) = _hash_dir(source[s]))
             => /\ \A e \in LogEntries : e.sid # s
                /\ \A r \in Roots : fs[r][s] = last.pre.fs[r][s]

\* C13 happens: a real weekly-sync processed bundle b while bundle a, removed
\* by hand from active and inactive but still recorded with the hash of its
\* source copy, was in the source.
C13_Witness ==
  /\ RealRun("weekly-sync")
  /\ ~last.crashed
  /\ _load_state(last.pre.stFile)["a"].form # "none"
  /\ ~last.pre.fs["active"]["a"].exists
  /\ ~last.pre.fs["inactive"]["a"].exists
  /\ ~last.pre.fs["quarantine"]["a"].exists
  /\ source["a"].exists
  /\ _state_get_hash(_load_state(last.pre.stFile), "a") = _hash_dir(source["a"])
  /\ \E e \in LogEntries : e.sid = "b" /\ e.phase = "scan"
  /\ ~fs["active"]["a"].exists

\* C14: weekly-sync and import alike take a source bundle that is in the
\* comparison root for updated exactly when its fresh hash differs from the
\* stored baseline hash or, with no baseline stored, from the hash of the
\* copy in the comparison root.
C14_UpdatedIffHashDiffers ==
  LET baseline(s) == _state_get_hash(_load_state(last.pre.stFile), s)
      differs(s) == IF baseline(s).some THEN baseline(s) # _hash_dir(source[s])
                    ELSE _hash_dir(last.pre.fs["active"][s]) # _hash_dir(source[s])
      both == _list_skill_ids(source) \cap _list_skill_ids(last.pre.fs["active"])
  IN /\ last.cmd = "weekly-sync" =>
          \A s \in both :
            (\E k \in DOMAIN last.report.details.updated :
                last.report.details.updated[k] = s) <=> differs(s)
     /\ (last.cmd = "import" /\ last.args.mode = "safe_updated" /\ ~last.crashed) =>
          \A s \in both : (\E e \in LogEntries : e.sid = s) <=> differs(s)

\* C15: an identifier that has a record in the persisted state file keeps
\* having one after every run, also when the file did not parse at load time.
C15_RecordsAreKept ==
  last.cmd # "" =>
    \A s \in Ids :
      (last.pre.stFile.exists /\ last.pre.stFile.skills[s].form # "none")
        => (stFile.exists /\ stFile.skills[s].form # "none")

\* C16: every state record a command writes has a disposition of the
\* specified set and a status in {clean, warning, danger, error}.
C16_RecordsAreWellFormed ==
  last.cmd # "" =>
    \A s \in Ids :
      (stFile.skills[s] # last.pre.stFile.skills[s] /\ stFile.skills[s].form = "full")
        => /\ stFile.skills[s].disposition \in
                {"active", "inactive", "inactive_placeholder", "active_warning",
                 "quarantine", "quarantine_policy", "quarantine_placeholder", "manual"}
           /\ stFile.skills[s].status \in {"clean", "warning", "danger", "error"}

\* C17: an import, activate or weekly-sync run that ends returns 2 when a
\* requested bundle was refused by the deny list or by the safety gate, and
\* 0 only when none was.
C17_ExitCodeTwoWhenRefused ==
  (last.cmd \in {"import", "activate", "weekly-sync"} /\ ~last.crashed) =>
    (last.exit = 2 <=>
       \E e \in LogEntries :
         \/ e.phase = "deny"
         \/ e.result = "blocked"
         \/ e.phase = "scan" /\ e.status \in {"danger", "error"})

\* C18: copy-with-backup onto an existing destination stores the old content
\* at the timestamped backup location before it touches the destination,
\* leaves exactly the source content in the destination when it completes
\* (no file of the old destination survives), and fails without writing when
\* the backup location exists already.
C18_CopyWithBackup ==
  \A root \in Roots, sid \in Ids, ts \in Clock, v \in Versions :
    \A r \in {_copy_skill_dir(Machine(NoState), v, root, sid, ts)} :
      LET old == fs[root][sid]
      IN old.exists =>
           /\ backups[sid][ts].exists => (~r.ok /\ r.backups = backups /\ r.fs = fs)
           /\ r.ok => (r.backups[sid][ts] = old /\ r.fs[root][sid] = v)
           /\ r.fs[root][sid] # old =>
                (r.backups[sid][ts] = old /\ r.fs[root][sid].files \subseteq v.files)
           /\ \A s \in Ids, t \in Clock :
                (s # sid \/ t # ts) => r.backups[s][t] = backups[s][t]

\* C18 happens: _copy_skill_dir has copied a version over a different
\* existing destination, whose old content is now in the backup of that
\* second, so that a further copy in the same second meets the backup.
C18_Witness ==
  /\ last.cmd = "_copy_skill_dir"
  /\ ~last.crashed
  /\ last.pre.fs[last.prim.root]["a"].exists
  /\ last.pre.fs[last.prim.root]["a"] # last.prim.dir
  /\ fs[last.prim.root]["a"] = last.prim.dir
  /\ backups["a"][last.prim.ts] = last.pre.fs[last.prim.root]["a"]
  /\ ~last.pre.backups["a"][last.prim.ts].exists

\* C19: in every state copy-with-backup, move-with-backup and placeholder
\* synthesis pass through, the content the destination had before exists
\* complete at the destination or at a backup location, and every backup
\* that existed before is still there unchanged.
C19_NothingLostWhenInterrupted ==
  LET m == Machine(NoState)
      Kept(x, root, sid) ==
        /\ fs[root][sid].exists =>
             \/ x.fs[root][sid] = fs[root][sid]
             \/ \E t \in Clock : x.backups[sid][t] = fs[root][sid]
        /\ \A s \in Ids, t \in Clock :
             backups[s][t].exists => x.backups[s][t] = backups[s][t]
  IN \A sid \in Ids, ts \in Clock :
       /\ \A root \in Roots :
            /\ _backup_and_remove(m, root, sid, ts)
                 \in BackupAndRemoveSteps(m, root, sid, ts)
            /\ \A v \in Versions :
                 \A x \in CopySteps(m, v, root, sid, ts) : Kept(x, root, sid)
       /\ \A x \in MoveSteps(m, "inactive", "active", sid, ts) : Kept(x, "active", sid)
       /\ \A x \in MoveSteps(m, "active", "inactive", sid, ts) : Kept(x, "inactive", sid)
       /\ \A v \in Versions :
            \A x \in PlaceholderSteps(m, sid, v, "manual activation blocked due to warnings",
                                      "warning", ts) : Kept(x, "active", sid)

\* C19 happens: _move_skill_dir has moved bundle a onto an existing
\* destination, whose old content is now in a backup next to the backup
\* that was there before.
C19_Witness ==
  /\ last.cmd = "_move_skill_dir"
  /\ ~last.crashed
  /\ last.pre.fs[last.prim.root]["a"].exists
  /\ fs[last.prim.root]["a"] = last.prim.dir
  /\ ~fs[last.prim.from]["a"].exists
  /\ backups["a"][last.prim.ts] = last.pre.fs[last.prim.root]["a"]
  /\ \E t \in Clock : t # last.prim.ts /\ last.pre.backups["a"][t].exists
                          /\ backups["a"][t] = last.pre.backups["a"][t]

\* C20: when a backup location exists already during one bundle's transition
\* in a real weekly-sync, import or activate run, the run goes on: it writes
\* its report and persists the records of the bundles it processed.
C20_CollisionFailsOneBundleOnly ==
  LET Readable(d) == \A f \in d.files : f.readable
      Collided(e) ==
        /\ e.result = "crashed"
        /\ Readable(source[e.sid])
        /\ \A r \in Roots : Readable(last.pre.fs[r][e.sid])
  IN (last.cmd \in {"weekly-sync", "import", "activate"} /\ ~last.args.dry_run
        /\ \E e \in LogEntries : Collided(e))
       => /\ last.cmd = "weekly-sync" => reportFile.exists
          /\ stFile.exists
          /\ \A e \in LogEntries :
               e.result \in {"ok", "imported", "activated"} =>
                 (stFile.skills[e.sid].form = "full"
                    /\ stFile.skills[e.sid].status = e.status)

\* C21: an identifier that is on the deny list and on the allow list is
\* treated as denied.  In weekly-sync, when it is a candidate it is in the
\* policy-denied list of the report, it is never in the skipped-by-allowlist
\* list and it is never scanned; import never processes it and leaves its
\* copy in the destination as it was, also when --skill names it.
C21_DenyWinsOverAllow ==
  \A s \in last.args.denylist \cap last.args.allowlist :
    /\ last.cmd = "weekly-sync" =>
         LET d == last.report.details
             InSeq(q) == \E k \in DOMAIN q : q[k] = s
             candidate == InSeq(d.new) \/ (~last.args.new_only /\ InSeq(d.updated))
         IN /\ candidate => InSeq(d.policy_denied)
            /\ ~InSeq(d.skipped_allowlist)
            /\ \A e \in LogEntries : e.sid = s => e.phase = "deny"
    /\ last.cmd = "import" =>
         /\ \A e \in LogEntries : e.sid # s
         /\ fs["active"][s] = last.pre.fs["active"][s]

\* C21 happens: import --skill a ran with a on both lists while the source
\* held a clean bundle a that the destination did not have.
C21_Witness ==
  /\ last.cmd = "import"
  /\ last.args.mode = "explicit"
  /\ last.args.skill = <<"a">>
  /\ "a" \in last.args.denylist \cap last.args.allowlist
  /\ source["a"] = VClean1
  /\ ~last.pre.fs["active"]["a"].exists
  /\ ~fs["active"]["a"].exists
\* C22: when weekly-sync is given an allow-list file, also one that lists no
\* identifier, every candidate that is neither deny-listed nor on the allow
\* list is skipped: it is not scanned, no root changes for it, no state
\* record is written for it, and it is in the skipped-by-allowlist list of
\* the report.
C22_NotAllowListedIsSkipped ==
  (last.cmd = "weekly-sync" /\ last.args.allowlist_given) =>
    LET d == last.report.details
        candidates == IF last.args.new_only THEN d.new ELSE d.new \o d.updated
    IN \A k \in DOMAIN candidates :
         LET s == candidates[k]
         IN (s \notin last.args.denylist /\ s \notin last.args.allowlist) =>
              /\ \A e \in LogEntries : e.sid # s
              /\ \A r \in Roots : fs[r][s] = last.pre.fs[r][s]
              /\ ~last.crashed => stFile.skills[s] = _load_state(last.pre.stFile)[s]
              /\ \E j \in DOMAIN d.skipped_allowlist : d.skipped_allowlist[j] = s
\* C23: the status scan_skill_dir returns is error whenever the read of a
\* scanned file fails, whatever the other files hold and in whatever order
\* the files are enumerated; otherwise it is the highest severity found
\* (danger over warning), and clean when there is no finding.
C23_ScanStatus ==
  last.cmd = "scan_skill_dir" =>
    LET scanned == {f \in last.prim.dir.files : ~_is_probably_binary(f)}
        Sev(v) == \E f \in scanned :
                    f.readable /\ \E i \in DOMAIN _scan_text(f.text) :
                                    _scan_text(f.text)[i].severity = v
        expected == IF \E f \in scanned : ~f.readable THEN "error"
                    ELSE IF Sev("danger") THEN "danger"
                    ELSE IF Sev("warning") THEN "warning"
                    ELSE "clean"
    IN last.out.first.status = expected

\* C24: two scans of the same bundle content return the same verdict (the
\* same status, the same hash and the same list of file results in the same
\* order), whatever order the files are enumerated in.
C24_ScanIsDeterministic ==
  last.cmd = "scan_skill_dir" => last.out.first = last.out.second

\* C25: two bundles (all files readable, content free to hold zero bytes)
\* feed the same byte sequence to the digest exactly when they have the same
\* set of (relative path, byte content) pairs.
C25_HashInputIsInjective ==
  LET Pairs(d) == {<<f.path, Bytes(f.text)>> : f \in d.files}
      Readable(d) == \A f \in d.files : f.readable
  IN (last.cmd = "_hash_dir" /\ Readable(source["a"]) /\ Readable(source["b"])) =>
       ((last.out.first.skill_hash = last.out.second.skill_hash)
          <=> (Pairs(source["a"]) = Pairs(source["b"])))

\* C26: _scan_text returns at most one finding per rule id, and the findings
\* are ordered by the place of each rule's first match in the text.
C26_FindingsInMatchOrder ==
  last.cmd = "_scan_text" =>
    LET q == last.out.findings
    IN \A i \in DOMAIN q : \A j \in DOMAIN q :
         i < j => (q[i].rule_id # q[j].rule_id /\ q[i].line <= q[j].line)
\* C27: the verdict find writes is labelled DO NOT USE when at least one
\* vetted bundle is danger, REVIEW REQUIRED when none is danger and at least
\* one is warning or error, SAFE otherwise; the per-status counts of the
\* report summary (and of the verdict) add up to the number of vetted
\* bundles, and every vetted bundle carries a status its scan returns.
C27_VerdictLabelAndCounts ==
  last.cmd = "find" =>
    LET skills == auditFiles.report.skills
        N(v) == Cardinality({i \in DOMAIN skills : skills[i].status = v})
        sm == auditFiles.report.summary
        vd == auditFiles.verdict
    IN /\ auditFiles.report.exists /\ vd.exists
       /\ vd.verdict = IF N("danger") > 0 THEN "DO NOT USE"
                       ELSE IF N("warning") + N("error") > 0 THEN "REVIEW REQUIRED"
                       ELSE "SAFE"
       /\ sm.clean + sm.warning + sm.danger + sm.error = Len(skills)
       /\ vd.clean + vd.warning + vd.danger + vd.error = vd.total
       /\ vd.total = Len(skills)
       /\ Len(skills) = Len(last.log)
       /\ \A i \in DOMAIN skills :
            skills[i].status \in FreshStatuses(source[skills[i].skill_id])

\* C27 happens: find vetted a clean bundle and a bundle with an unreadable
\* file, and labelled the verdict REVIEW REQUIRED.
C27_Witness ==
  /\ last.cmd = "find"
  /\ Len(auditFiles.report.skills) = 2
  /\ auditFiles.report.summary.error = 1
  /\ auditFiles.report.summary.clean = 1
  /\ auditFiles.verdict.verdict = "REVIEW REQUIRED"

C28_PlaceholderScansClean ==
  (last.cmd = "_write_placeholder_skill" /\ ~last.crashed) =>
    LET d == fs["active"][last.prim.sid]
        fm == _parse_frontmatter(last.prim.dir)
    IN /\ IsPlaceholder(d)
       /\ \A f \in d.files :
            /\ f.text.skill = last.prim.sid
            /\ fm.name # "" => f.text.name = fm.name
       /\ \A o \in Orders(d.files) : scan_skill_dir(d, o).status = "clean"
\* C29: after a real deactivate of a bundle that was in active, the bundle is
\* absent from active, inactive holds exactly the content that was active
\* (a copy that was in inactive before is in a new backup), and the state
\* record of the bundle has disposition inactive and the hash of the moved
\* content.
C29_DeactivateMovesToInactive ==
  RealRun("deactivate") =>
    \A i \in DOMAIN last.args.skill :
      LET s == last.args.skill[i]
          was == last.pre.fs["active"][s]
      IN was.exists =>
           /\ ~fs["active"][s].exists
           /\ fs["inactive"][s] = was
           /\ last.pre.fs["inactive"][s].exists =>
                \E t \in Clock : /\ ~last.pre.backups[s][t].exists
                                 /\ backups[s][t] = last.pre.fs["inactive"][s]
           /\ stFile.skills[s].disposition = "inactive"
           /\ stFile.skills[s].hash = _hash_dir(was)
\* C31: within each phase of a weekly-sync run (the policy-denied bundles,
\* then the scanned candidates) and of an import run (the requested bundles)
\* the identifiers are processed in ascending sorted order, and the report
\* lists them in that order.
C31_ProcessedInSortedOrder ==
  LET Rank(s) == CHOOSE k \in DOMAIN SortedIds : SortedIds[k] = s
      Ascending(q) == \A i \in DOMAIN q : \A j \in DOMAIN q :
                        i < j => Rank(q[i]) < Rank(q[j])
      Phase(p) == LET InPhase(e) == e.phase = p
                      es == SelectSeq(last.log, InPhase)
                  IN [k \in DOMAIN es |-> es[k].sid]
  IN /\ last.cmd = "weekly-sync" =>
          /\ Ascending(Phase("deny"))
          /\ Ascending(Phase("scan"))
          /\ Ascending(last.report.details.policy_denied)
          /\ Ascending([k \in DOMAIN last.report.details.actions |->
                          last.report.details.actions[k].skill_id])
     /\ last.cmd = "import" => Ascending(Phase("import"))
\* C32: change detection gives the same new and updated lists when the state
\* entry of a bundle is the legacy bare hash string H as when it is a full
\* record with hash H, in weekly-sync and in find; a run that does not
\* process the bundle leaves the entry as it was, so that the next run reads
\* H from it.
C32_LegacyEntryReadAsFull ==
  last.cmd \in {"weekly-sync", "find", "import", "activate", "deactivate"} =>
  LET before == _load_state(last.pre.stFile)
      AsFull(st) == [s \in Ids |-> IF st[s].form = "legacy"
                                   THEN [st[s] EXCEPT !.form = "full", !.status = "clean",
                                                      !.disposition = "active"]
                                   ELSE st[s]]
      full == [exists |-> TRUE, parses |-> TRUE, skills |-> AsFull(before)]
  IN (\E s \in Ids : before[s].form = "legacy") =>
       /\ last.cmd = "weekly-sync" =>
            /\ last.report.details.new = SyncNew(source, last.pre.fs, AsFull(before))
            /\ last.report.details.updated = SyncUpdated(source, AsFull(before))
       /\ last.cmd = "find" =>
            \E ords \in EnumOrders(source) :
              auditFiles.report =
                FindRun(source, last.pre.fs["active"], full, last.args, ords).report
       /\ \A s \in Ids :
            (before[s].form = "legacy" /\ \A e \in LogEntries : e.sid # s) =>
              /\ stFile.skills[s] = before[s]
              /\ _state_get_hash(_load_state(stFile), s) = before[s].hash

\* C32 happens: a real weekly-sync read the legacy entry of bundle a, found
\* the source copy of a changed and took a for updated.
C32_Witness ==
  /\ RealRun("weekly-sync")
  /\ _load_state(last.pre.stFile)["a"].form = "legacy"
  /\ source["a"] = VClean2
  /\ last.report.details.updated = <<"a">>

\* C33: when a real weekly-sync is run twice in a row with the same source,
\* policy lists and flags, the second run performs no directory transition
\* and no backup: the three roots, the backups and every state record are as
\* the first run left them.
C33_SecondSyncChangesNothing ==
  LET n == Len(last.trail)
  IN (/\ n >= 2
      /\ last.trail[n].cmd = "weekly-sync"
      /\ last.trail[n - 1].cmd = "weekly-sync"
      /\ last.trail[n].args = last.trail[n - 1].args)
       => /\ fs = last.pre.fs
          /\ backups = last.pre.backups
          /\ stFile.skills = last.pre.stFile.skills
\* C34: after any sequence of real weekly-sync, activate and deactivate runs,
\* a bundle whose recorded disposition is quarantine, quarantine_policy,
\* quarantine_placeholder, inactive, inactive_only or inactive_placeholder
\* has no copy of the original bundle content in the active root: the active
\* root holds nothing for it, or a placeholder.
C34_WithheldDispositionNotActive ==
  \A s \in Ids :
    _load_state(stFile)[s].disposition \in
        {"quarantine", "quarantine_policy", "quarantine_placeholder",
         "inactive", "inactive_only", "inactive_placeholder"}
      => (~fs["active"][s].exists \/ IsPlaceholder(fs["active"][s]))
\* C35: once a clean bundle was activated by a real weekly-sync and later
\* moved to inactive by a real deactivate, a later weekly-sync, with the
\* source copy unchanged since the activation and no activate run since the
\* deactivation, leaves the bundle in the inactive root, with the content
\* that was activated, and absent from the active root.
C35_Activated(i, s) ==
  /\ last.trail[i].cmd = "weekly-sync"
  /\ ~last.trail[i].args.dry_run
  /\ \E e \in DOMAIN last.trail[i].log :
       last.trail[i].log[e] = Entry(s, "scan", "clean", "ok")
C35_Deactivated(j, s) ==
  /\ last.trail[j].cmd = "deactivate"
  /\ ~last.trail[j].args.dry_run
  /\ \E e \in DOMAIN last.trail[j].log :
       last.trail[j].log[e] = Entry(s, "deactivate", "", "deactivated")
C35_Case(i, j, s) ==
  LET n == Len(last.trail)
  IN /\ i < j
     /\ j < n
     /\ C35_Activated(i, s)
     /\ C35_Deactivated(j, s)
     /\ last.trail[n].cmd = "weekly-sync"
     /\ \A k \in (i + 1)..n : last.trail[k].cmd # "upstream"
     /\ \A k \in (j + 1)..n : last.trail[k].cmd # "activate"
C35_DeactivatedStaysInactive ==
  \A s \in Ids : \A i, j \in DOMAIN last.trail :
    C35_Case(i, j, s) =>
      /\ fs["inactive"][s] = source[s]
      /\ ~fs["active"][s].exists
C35_Witness ==
  /\ C35_Case(1, 2, "a")
  /\ ~last.trail[3].crashed
  /\ fs["inactive"]["a"] = VClean1
\* C36: within one real weekly-sync run the backups taken while processing a
\* single bundle go to distinct backup locations, also within one second:
\* a warning bundle that was in both the inactive and the active root is
\* processed to the end, and when both old copies are replaced each of them
\* is in a backup location of its own that was free before the run.
C36_BackupsOfOneBundleDistinct ==
  RealRun("weekly-sync") =>
    \A e \in LogEntries :
      LET s == e.sid
          wasInactive == last.pre.fs["inactive"][s]
          wasActive == last.pre.fs["active"][s]
          replacesActive == ~last.args.no_placeholder_warnings \/ last.args.allow_warnings
      IN (e.phase = "scan" /\ e.status = "warning" /\ wasInactive.exists /\ wasActive.exists)
           => /\ e.result = "ok"
              /\ replacesActive =>
                   \E t1 \in Clock, t2 \in Clock :
                     /\ t1 # t2
                     /\ ~last.pre.backups[s][t1].exists
                     /\ ~last.pre.backups[s][t2].exists
                     /\ backups[s][t1] = wasInactive
                     /\ backups[s][t2] = wasActive
====
